---- MODULE Spec2Model ----
(***************************************************************************)
(* Model of breaker/util.py: the JSON-file persistence helpers and the     *)
(* role gate of the Circuit Breakers Team Hub.                             *)
(*                                                                         *)
(* A file is a sequence of tokens (the chunks json.dump writes); Python    *)
(* values are tagged records.  json.dump and json.load are modelled by     *)
(* Encode and Parse, which are not inverses of each other on texts:        *)
(* whitespace is dropped by Parse and duplicate object keys collapse.      *)
(***************************************************************************)
EXTENDS Integers, Sequences, FiniteSets, TLC

VARIABLES files, mode, session, pc, cur, buf, held, ret, calls

vars == <<files, mode, session, pc, cur, buf, held, ret, calls>>

-----------------------------------------------------------------------------
(* Bounds of the model.                                                    *)

\* calls each of two concurrent callers may make
MaxCalls == 2
\* calls the single caller of the sequential specification may make
MaxSeqCalls == 2
\* tokens one flush of the buffered file object writes
BufSize == 6

Callers == {"A", "B"}

-----------------------------------------------------------------------------
(* Paths of the data files.  Tasks and messages stand for the seven list    *)
(* collections: the wrappers of build logs, resources, media, events and   *)
(* sponsors are the same two lines with another path.                      *)

USERS_FILE == "data/users.json"
TASKS_FILE == "data/tasks.json"
MESSAGES_FILE == "data/messages.json"
SETTINGS_FILE == "data/settings.json"

Paths == {USERS_FILE, TASKS_FILE, MESSAGES_FILE, SETTINGS_FILE}

\* the collections that have a load_X / save_X pair, with their files
Collections == {TASKS_FILE, MESSAGES_FILE}

\* the suffix test with 'users.json' left out
EndsWithSettingsOnly(file_path) == file_path = SETTINGS_FILE

\* file_path.endswith(('settings.json', 'users.json'))
EndsWithDictSuffix(file_path) == file_path \in {SETTINGS_FILE, USERS_FILE}

-----------------------------------------------------------------------------
(* Python values.                                                          *)

PyNone == [t |-> "none", s |-> "", items |-> <<>>]
PyBool(b) == [t |-> "bool", s |-> IF b THEN "true" ELSE "false", items |-> <<>>]
PyInt(digits) == [t |-> "int", s |-> digits, items |-> <<>>]
PyStr(chars) == [t |-> "str", s |-> chars, items |-> <<>>]
PyList(xs) == [t |-> "list", s |-> "", items |-> xs]
\* a dict keeps insertion order: items is <<key1, value1, key2, value2, ...>>
PyDict(kvs) == [t |-> "dict", s |-> "", items |-> kvs]
\* a value json cannot serialize (a datetime, a set, ...)
PyObject == [t |-> "object", s |-> "datetime", items |-> <<>>]

EmptyList == PyList(<<>>)
EmptyDict == PyDict(<<>>)

IsDict(v) == v.t = "dict"
IsList(v) == v.t = "list"

DictLen(d) == Len(d.items) \div 2
DictKey(d, i) == d.items[2 * i - 1]
DictVal(d, i) == d.items[2 * i]
HasKey(d, k) == \E i \in 1..DictLen(d) : DictKey(d, i) = k

\* d[k] = v: a new key goes last, an old key keeps its place
DictSet(d, k, v) ==
  IF HasKey(d, k)
  THEN PyDict([j \in 1..Len(d.items) |->
                 IF j % 2 = 0 /\ d.items[j - 1] = k THEN v ELSE d.items[j]])
  ELSE PyDict(d.items \o <<k, v>>)

\* d.get(k, dflt)
DictGet(d, k, dflt) ==
  IF HasKey(d, k)
  THEN DictVal(d, CHOOSE i \in 1..DictLen(d) : DictKey(d, i) = k)
  ELSE dflt

-----------------------------------------------------------------------------
(* Tokens of a JSON text.                                                  *)

INDENT == 4

Punct(c) == [k |-> "punct", s |-> c, n |-> 0]
LBracket == Punct("[")
RBracket == Punct("]")
LBrace == Punct("{")
RBrace == Punct("}")
Comma == Punct(",")
Colon == Punct(":")
Lit(word) == [k |-> "lit", s |-> word, n |-> 0]
Num(digits) == [k |-> "num", s |-> digits, n |-> 0]
Str(chars) == [k |-> "str", s |-> chars, n |-> 0]
\* a newline followed by n spaces
Newline(n) == [k |-> "ws", s |-> "nl", n |-> n]
Space == [k |-> "ws", s |-> "sp", n |-> 1]
\* text that is no JSON token
Garbage == [k |-> "bad", s |-> "?", n |-> 0]
\* the zero bytes of a hole left by a write past the end of the file
Nul == [k |-> "bad", s |-> "nul", n |-> 0]

-----------------------------------------------------------------------------
(* json.dump(data, f, indent=4): the chunks written before the encoder     *)
(* ends or raises TypeError on a value it cannot serialize.                *)

RECURSIVE Encode(_, _), EncodeList(_, _, _, _), EncodeDict(_, _, _, _)

\* the encoder writing booleans as Python prints them
EncodePythonBool(v, level) ==
  CASE v.t = "none" -> [toks |-> <<Lit("null")>>, ok |-> TRUE]
    [] v.t = "bool" ->
         [toks |-> <<Lit(IF v.s = "true" THEN "True" ELSE "False")>>, ok |-> TRUE]
    [] v.t = "int" -> [toks |-> <<Num(v.s)>>, ok |-> TRUE]
    [] v.t = "str" -> [toks |-> <<Str(v.s)>>, ok |-> TRUE]
    [] v.t = "list" ->
         IF v.items = <<>>
         THEN [toks |-> <<LBracket, RBracket>>, ok |-> TRUE]
         ELSE EncodeList(v.items, 1, level, <<LBracket>>)
    [] v.t = "dict" ->
         IF v.items = <<>>
         THEN [toks |-> <<LBrace, RBrace>>, ok |-> TRUE]
         ELSE EncodeDict(v, 1, level, <<LBrace>>)
    [] OTHER -> [toks |-> <<>>, ok |-> FALSE]

\* [toks |-> the chunks yielded, ok |-> FALSE when the encoder raised]
Encode(v, level) ==
  CASE v.t = "none" -> [toks |-> <<Lit("null")>>, ok |-> TRUE]
    [] v.t = "bool" -> [toks |-> <<Lit(v.s)>>, ok |-> TRUE]
    [] v.t = "int" -> [toks |-> <<Num(v.s)>>, ok |-> TRUE]
    [] v.t = "str" -> [toks |-> <<Str(v.s)>>, ok |-> TRUE]
    [] v.t = "list" ->
         IF v.items = <<>>
         THEN [toks |-> <<LBracket, RBracket>>, ok |-> TRUE]
         ELSE EncodeList(v.items, 1, level, <<LBracket>>)
    [] v.t = "dict" ->
         IF v.items = <<>>
         THEN [toks |-> <<LBrace, RBrace>>, ok |-> TRUE]
         ELSE EncodeDict(v, 1, level, <<LBrace>>)
    [] OTHER -> [toks |-> <<>>, ok |-> FALSE]

EncodeList(xs, i, level, acc) ==
  IF i > Len(xs)
  THEN [toks |-> acc \o <<Newline(INDENT * level), RBracket>>, ok |-> TRUE]
  ELSE LET sep == IF i = 1 THEN <<>> ELSE <<Comma>>
           e == Encode(xs[i], level + 1)
           out == acc \o sep \o <<Newline(INDENT * (level + 1))>> \o e.toks
       IN  IF e.ok THEN EncodeList(xs, i + 1, level, out)
           ELSE [toks |-> out, ok |-> FALSE]

EncodeDict(d, i, level, acc) ==
  IF i > DictLen(d)
  THEN [toks |-> acc \o <<Newline(INDENT * level), RBrace>>, ok |-> TRUE]
  ELSE LET sep == IF i = 1 THEN <<>> ELSE <<Comma>>
           e == Encode(DictVal(d, i), level + 1)
           out == acc \o sep \o <<Newline(INDENT * (level + 1)),
                                  Str(DictKey(d, i).s), Colon, Space>> \o e.toks
       IN  IF e.ok THEN EncodeDict(d, i + 1, level, out)
           ELSE [toks |-> out, ok |-> FALSE]

-----------------------------------------------------------------------------
(* json.load(f): the value of a text, or a failure (JSONDecodeError).      *)

RECURSIVE SkipWs(_, _)
SkipWs(toks, i) ==
  IF i <= Len(toks) /\ toks[i].k = "ws" THEN SkipWs(toks, i + 1) ELSE i

ParseFail == [ok |-> FALSE, val |-> PyNone, pos |-> 0]
Parsed(v, next) == [ok |-> TRUE, val |-> v, pos |-> next]

RECURSIVE ParseValue(_, _), ParseItems(_, _, _), ParseMembers(_, _, _)

\* the value that starts at or after position i0, and the position after it
ParseValue(toks, i0) ==
  LET i == SkipWs(toks, i0) IN
  IF i > Len(toks) THEN ParseFail
  ELSE LET tk == toks[i] IN
    CASE tk.k = "lit" /\ tk.s = "null" -> Parsed(PyNone, i + 1)
      [] tk.k = "lit" /\ tk.s \in {"true", "false"} ->
           Parsed(PyBool(tk.s = "true"), i + 1)
      [] tk.k = "num" -> Parsed(PyInt(tk.s), i + 1)
      [] tk.k = "str" -> Parsed(PyStr(tk.s), i + 1)
      [] tk = LBracket ->
           LET j == SkipWs(toks, i + 1) IN
           IF j <= Len(toks) /\ toks[j] = RBracket
           THEN Parsed(EmptyList, j + 1)
           ELSE ParseItems(toks, i + 1, <<>>)
      [] tk = LBrace ->
           LET j == SkipWs(toks, i + 1) IN
           IF j <= Len(toks) /\ toks[j] = RBrace
           THEN Parsed(EmptyDict, j + 1)
           ELSE ParseMembers(toks, i + 1, EmptyDict)
      [] OTHER -> ParseFail

\* the items of an array after "[" or ",": a value, then "," or "]"
ParseItems(toks, i0, acc) ==
  LET r == ParseValue(toks, i0) IN
  IF ~r.ok THEN ParseFail
  ELSE LET j == SkipWs(toks, r.pos) IN
    IF j > Len(toks) THEN ParseFail
    ELSE IF toks[j] = Comma THEN ParseItems(toks, j + 1, Append(acc, r.val))
    ELSE IF toks[j] = RBracket THEN Parsed(PyList(Append(acc, r.val)), j + 1)
    ELSE ParseFail

\* the members of an object after "{" or ",": a string, ":", a value, then
\* "," or "}"; a repeated key overwrites the earlier value
ParseMembers(toks, i0, acc) ==
  LET i == SkipWs(toks, i0) IN
  IF i > Len(toks) \/ toks[i].k # "str" THEN ParseFail
  ELSE LET c == SkipWs(toks, i + 1) IN
    IF c > Len(toks) \/ toks[c] # Colon THEN ParseFail
    ELSE LET r == ParseValue(toks, c + 1) IN
      IF ~r.ok THEN ParseFail
      ELSE LET j == SkipWs(toks, r.pos)
               d == DictSet(acc, PyStr(toks[i].s), r.val)
           IN
        IF j > Len(toks) THEN ParseFail
        ELSE IF toks[j] = Comma THEN ParseMembers(toks, j + 1, d)
        ELSE IF toks[j] = RBrace THEN Parsed(d, j + 1)
        ELSE ParseFail

\* json.load: one value, then nothing but whitespace ("Extra data" otherwise)
Parse(toks) ==
  LET r == ParseValue(toks, 1) IN
  IF r.ok /\ SkipWs(toks, r.pos) > Len(toks) THEN r ELSE ParseFail

-----------------------------------------------------------------------------
(* The file system: a file's text, and whether it can be opened.           *)

Absent == [exists |-> FALSE, text |-> <<>>]
File(text) == [exists |-> TRUE, text |-> text]

ReadWrite == [r |-> TRUE, w |-> TRUE]
ReadOnly == [r |-> TRUE, w |-> FALSE]
WriteOnly == [r |-> FALSE, w |-> TRUE]

Min(a, b) == IF a < b THEN a ELSE b
Max(a, b) == IF a > b THEN a ELSE b

\* write(2) of chunk at offset off: bytes after the chunk stay, a gap
\* between the end of the file and off reads as zero bytes
WriteAt(text, off, chunk) ==
  [i \in 1..Max(Len(text), off + Len(chunk)) |->
     IF i > off /\ i <= off + Len(chunk) THEN chunk[i - off]
     ELSE IF i <= Len(text) THEN text[i]
     ELSE Nul]

-----------------------------------------------------------------------------
(* Texts a data file may hold before the program runs.                     *)

Task(id) == PyDict(<<PyStr("id"), PyStr(id), PyStr("done"), PyBool(FALSE)>>)

User(name, role) ==
  PyDict(<<PyStr("name"), PyStr(name), PyStr("role"), PyStr(role),
           PyStr("email"), PyStr("a@x.org"), PyStr("department"), PyStr("build"),
           PyStr("created_at"), PyStr("2023-05-01T10:00:00")>>)

ValidTexts ==
  { <<LBracket, RBracket>>,
    <<LBrace, RBrace>>,
    <<Lit("null")>>,
    <<Space, Num("7"), Newline(0)>>,
    <<LBracket, Str("t0"), Comma, Str("t1"), RBracket>>,
    <<LBracket, Lit("true"), Comma, Lit("null"), RBracket>>,
    <<LBrace, Str("a"), Colon, Num("1"), Comma, Str("b"), Colon, Num("2"),
      Comma, Str("a"), Colon, Num("3"), RBrace>>,
    Encode(PyList(<<Task("1")>>), 0).toks }

InvalidTexts ==
  { <<Garbage>>,
    <<Newline(0)>>,
    <<LBracket>>,
    <<LBracket, Num("1"), Comma, RBracket>>,
    <<LBracket, RBracket, RBracket>>,
    <<LBrace, Str("a"), Num("1"), RBrace>> }

UsersTexts ==
  { Encode(PyDict(<<PyStr("ann"), User("Ann", "admin")>>), 0).toks,
    Encode(PyDict(<<PyStr("ann"), User("Ann", "admin"),
                    PyStr("bob"), PyDict(<<PyStr("name"), PyStr("Bob")>>)>>), 0).toks,
    Encode(PyDict(<<PyStr("bob"), EmptyDict>>), 0).toks,
    <<LBrace, Str("bob"), Colon, LBrace, RBrace, Comma,
      Str("ann"), Colon, LBrace, RBrace, Comma,
      Str("bob"), Colon, LBrace, Str("role"), Colon, Str("lead"), RBrace, RBrace>>,
    Encode(PyDict(<<PyStr("bob"), PyInt("1")>>), 0).toks,
    Encode(PyList(<<User("Ann", "admin")>>), 0).toks }

\* the states a file can start in: each text with every permission, and a
\* file that cannot be read or cannot be written
InitFiles(p) ==
  {[file |-> Absent, mode |-> m] : m \in {ReadWrite, ReadOnly}}
  \cup {[file |-> File(<<>>), mode |-> ReadWrite]}
  \cup {[file |-> File(t), mode |-> ReadWrite] :
          t \in IF p = USERS_FILE THEN UsersTexts \cup {<<Garbage>>}
                ELSE ValidTexts \cup InvalidTexts}
  \cup {[file |-> File(Encode(PyList(<<Task("1")>>), 0).toks), mode |-> m] :
          m \in {ReadOnly, WriteOnly}}

-----------------------------------------------------------------------------
(* Callers.                                                                *)

NoCall == [op |-> "none", path |-> "", default |-> PyNone, data |-> PyNone]
NoBuf == [toks |-> <<>>, off |-> 0, ok |-> TRUE]
NoRet == [op |-> "none", path |-> "", arg |-> PyNone, roles |-> {},
          val |-> PyNone, raised |-> FALSE, warnings |-> 0]
\* the value a caller holds, and the file it was loaded from
Fresh == [val |-> EmptyList, from |-> ""]

Items == {PyStr("new"), PyObject}

\* the loaded value after one modification by the caller
Modify(v, item) ==
  IF IsList(v) THEN PyList(Append(v.items, item))
  ELSE IF IsDict(v) THEN DictSet(v, PyStr("k"), item)
  ELSE v

\* the values a caller passes to a save: what it holds, as it is or modified
Edits(v) == {v} \cup {Modify(v, it) : it \in Items}

\* default arguments of read_json_file: none, and one that is neither [] nor {}
Defaults == {PyNone, PyDict(<<PyStr("theme"), PyStr("dark")>>)}

RoleNames == {"admin", "member", "lead"}
Times == {"2024-01-01T09:00:00", "2024-01-01T09:00:01"}

\* st.session_state as a dict
Sessions ==
  { PyDict(a \o r) :
      a \in {<<>>, <<PyStr("authenticated"), PyBool(FALSE)>>,
             <<PyStr("authenticated"), PyBool(TRUE)>>},
      r \in {<<>>} \cup {<<PyStr("role"), PyStr(n)>> : n \in RoleNames} }

\* Python truth of a value
Truthy(v) ==
  CASE v.t = "none" -> FALSE
    [] v.t = "bool" -> v.s = "true"
    [] v.t = "int" -> v.s # "0"
    [] v.t = "str" -> v.s # ""
    [] v.t \in {"list", "dict"} -> v.items # <<>>
    [] OTHER -> TRUE

-----------------------------------------------------------------------------
(* Returning from a call.                                                  *)

Returned(c, op, path, arg, roles, val, raised, warnings) ==
  [ret EXCEPT ![c] = [op |-> op, path |-> path, arg |-> arg, roles |-> roles,
                      val |-> val, raised |-> raised, warnings |-> warnings]]

\* the step that ends caller c's call: the call's record is dropped
Finish(c) ==
  /\ pc' = [pc EXCEPT ![c] = "idle"]
  /\ cur' = [cur EXCEPT ![c] = NoCall]
  /\ buf' = [buf EXCEPT ![c] = NoBuf]

CanCall(c) == pc[c] = "idle" /\ calls[c] > 0

-----------------------------------------------------------------------------
(* check_role_access(required_roles)                                       *)

\* the gate without its second warning
RoleAccessSilentDenial(session_state, required_roles) ==
  LET authenticated == DictGet(session_state, PyStr("authenticated"), PyBool(FALSE))
      user_role == DictGet(session_state, PyStr("role"), PyNone)
  IN  IF ~Truthy(authenticated) THEN [val |-> FALSE, warnings |-> 1]
      ELSE IF user_role \notin required_roles THEN [val |-> FALSE, warnings |-> 0]
      ELSE [val |-> TRUE, warnings |-> 0]

\* lines 39-48: the value returned and the warnings emitted
RoleAccess(session_state, required_roles) ==
  LET authenticated == DictGet(session_state, PyStr("authenticated"), PyBool(FALSE))
      user_role == DictGet(session_state, PyStr("role"), PyNone)
  IN  IF ~Truthy(authenticated) THEN [val |-> FALSE, warnings |-> 1]
      ELSE IF user_role \notin required_roles THEN [val |-> FALSE, warnings |-> 1]
      ELSE [val |-> TRUE, warnings |-> 0]

CheckRoleAccess(c, required_roles) ==
  /\ CanCall(c)
  /\ calls' = [calls EXCEPT ![c] = @ - 1]
  /\ LET r == RoleAccess(session, required_roles) IN
     ret' = Returned(c, "check_role_access", "", PyNone, required_roles,
                     PyBool(r.val), FALSE, r.warnings)
  /\ UNCHANGED <<files, mode, session, pc, cur, buf, held>>

-----------------------------------------------------------------------------
(* read_json_file(file_path, default=None)                                 *)

\* lines 53-54: the default when none is given
DefaultFor(file_path, default) ==
  IF default = PyNone
  THEN IF ~EndsWithDictSuffix(file_path) THEN EmptyList ELSE EmptyDict
  ELSE default

BeginRead(c, op, file_path, default) ==
  /\ CanCall(c)
  /\ calls' = [calls EXCEPT ![c] = @ - 1]
  /\ cur' = [cur EXCEPT ![c] = [op |-> op, path |-> file_path,
                                default |-> default, data |-> PyNone]]
  /\ pc' = [pc EXCEPT ![c] = "stat"]
  /\ UNCHANGED <<files, mode, session, buf, held, ret>>

ReadJsonFile(c, file_path, default) ==
  BeginRead(c, "read_json_file", file_path, default)

\* load_tasks, load_messages, ...: read_json_file(X_FILE)
LoadX(c, X) == ReadJsonFile(c, X, PyNone)

\* load_team_members starts with read_json_file(USERS_FILE)
LoadTeamMembers(c) == BeginRead(c, "load_team_members", USERS_FILE, PyNone)

\* the member record with no default role
MemberRoleBlank(username, user_data, now) ==
  PyDict(<<PyStr("username"), username,
           PyStr("name"), DictGet(user_data, PyStr("name"), PyStr("")),
           PyStr("role"), DictGet(user_data, PyStr("role"), PyStr("")),
           PyStr("email"), DictGet(user_data, PyStr("email"), PyStr("")),
           PyStr("department"), DictGet(user_data, PyStr("department"), PyStr("")),
           PyStr("created_at"), DictGet(user_data, PyStr("created_at"), PyStr(now))>>)

\* one member record of load_team_members
Member(username, user_data, now) ==
  PyDict(<<PyStr("username"), username,
           PyStr("name"), DictGet(user_data, PyStr("name"), PyStr("")),
           PyStr("role"), DictGet(user_data, PyStr("role"), PyStr("member")),
           PyStr("email"), DictGet(user_data, PyStr("email"), PyStr("")),
           PyStr("department"), DictGet(user_data, PyStr("department"), PyStr("")),
           PyStr("created_at"), DictGet(user_data, PyStr("created_at"), PyStr(now))>>)

\* users.items() or user_data.get raises AttributeError
TeamMembersRaises(users) ==
  \/ ~IsDict(users)
  \/ \E i \in 1..DictLen(users) : ~IsDict(DictVal(users, i))

TeamMembers(users, nows) ==
  PyList([i \in 1..DictLen(users) |->
            Member(DictKey(users, i), DictVal(users, i), nows[i])])

\* what the call returns once read_json_file has returned `users`/the data
ReadResult(c, val) ==
  LET op == cur[c].op
      path == cur[c].path
  IN  IF op # "load_team_members"
      THEN /\ ret' = Returned(c, op, path, cur[c].default, {}, val, FALSE, 0)
           /\ held' = [held EXCEPT ![c] = [val |-> val, from |-> path]]
      ELSE IF TeamMembersRaises(val)
      THEN /\ ret' = Returned(c, op, path, PyNone, {}, PyNone, TRUE, 0)
           /\ UNCHANGED held
      ELSE /\ \E nows \in [1..DictLen(val) -> Times] :
                ret' = Returned(c, op, path, PyNone, {},
                                TeamMembers(val, nows), FALSE, 0)
           /\ UNCHANGED held

\* the check that creates the file it does not find
StatCreating(c) ==
  /\ pc[c] = "stat"
  /\ LET p == cur[c].path
         f == files[p]
     IN  IF f.exists /\ Len(f.text) > 0
         THEN /\ pc' = [pc EXCEPT ![c] = "read"]
              /\ UNCHANGED <<files, cur, buf, held, ret>>
         ELSE /\ ReadResult(c, DefaultFor(p, cur[c].default))
              /\ Finish(c)
              /\ files' = [files EXCEPT ![p] = File(<<>>)]
  /\ UNCHANGED <<mode, session, calls>>

\* line 57: os.path.exists(file_path) and os.path.getsize(file_path) > 0
Stat(c) ==
  /\ pc[c] = "stat"
  /\ LET f == files[cur[c].path] IN
     IF f.exists /\ Len(f.text) > 0
     THEN /\ pc' = [pc EXCEPT ![c] = "read"]
          /\ UNCHANGED <<cur, buf, held, ret>>
     ELSE /\ ReadResult(c, DefaultFor(cur[c].path, cur[c].default))
          /\ Finish(c)
  /\ UNCHANGED <<files, mode, session, calls>>

\* the except clause returning None instead of the default
ReadContentsNoneOnError(file_path, default) ==
  LET f == files[file_path]
      r == Parse(f.text)
  IN  IF mode[file_path].r /\ r.ok THEN r.val ELSE PyNone

\* lines 58-63: open, json.load, and the except clause
ReadContents(file_path, default) ==
  LET f == files[file_path]
      r == Parse(f.text)
  IN  IF mode[file_path].r /\ r.ok THEN r.val ELSE DefaultFor(file_path, default)

Read(c) ==
  /\ pc[c] = "read"
  /\ ReadResult(c, ReadContents(cur[c].path, cur[c].default))
  /\ Finish(c)
  /\ UNCHANGED <<files, mode, session, calls>>

-----------------------------------------------------------------------------
(* write_json_file(file_path, data)                                        *)

BeginWrite(c, op, file_path, data) ==
  /\ CanCall(c)
  /\ calls' = [calls EXCEPT ![c] = @ - 1]
  /\ cur' = [cur EXCEPT ![c] = [op |-> op, path |-> file_path,
                                default |-> PyNone, data |-> data]]
  /\ pc' = [pc EXCEPT ![c] = "open"]
  /\ UNCHANGED <<files, mode, session, buf, held, ret>>

WriteJsonFile(c, file_path, data) ==
  BeginWrite(c, "write_json_file", file_path, data)

\* save_tasks, save_messages, ...: write_json_file(X_FILE, data)
SaveX(c, X, data) == WriteJsonFile(c, X, data)

\* the file opened for update ('r+'): its old text stays
OpenedWithoutTruncation(f) == File(f.text)

\* open(file_path, 'w') truncates the file
Truncated(f) == File(<<>>)

\* line 68: open(file_path, 'w'), and json.dump filling the buffer
Open(c) ==
  /\ pc[c] = "open"
  /\ LET path == cur[c].path
         e == Encode(cur[c].data, 0)
     IN  IF mode[path].w
         THEN /\ files' = [files EXCEPT ![path] = Truncated(@)]
              /\ buf' = [buf EXCEPT ![c] = [toks |-> e.toks, off |-> 0, ok |-> e.ok]]
              /\ pc' = [pc EXCEPT ![c] = "flush"]
              /\ UNCHANGED <<cur, ret>>
         ELSE /\ ret' = Returned(c, cur[c].op, path, cur[c].data, {},
                                 PyBool(FALSE), FALSE, 0)
              /\ Finish(c)
              /\ UNCHANGED files
  /\ UNCHANGED <<mode, session, held, calls>>

\* the file after the buffer's next BufSize tokens are written at its offset
Flushed(f, b) ==
  LET n == Min(BufSize, Len(b.toks) - b.off) IN
  IF n = 0 THEN f
  ELSE File(WriteAt(f.text, b.off, SubSeq(b.toks, b.off + 1, b.off + n)))

\* success reported whether or not json.dump raised
WriteResultAlwaysTrue(b) == TRUE

\* lines 70-73: True after json.dump, False from the except clause
WriteResult(b) == b.ok

\* the buffer is written when it is full and when the file is closed
Flush(c) ==
  /\ pc[c] = "flush"
  /\ LET path == cur[c].path
         b == buf[c]
         n == Min(BufSize, Len(b.toks) - b.off)
     IN  /\ files' = [files EXCEPT ![path] = Flushed(@, b)]
         /\ IF b.off + n < Len(b.toks)
            THEN /\ buf' = [buf EXCEPT ![c].off = @ + n]
                 /\ UNCHANGED <<pc, cur, ret>>
            ELSE /\ ret' = Returned(c, cur[c].op, path, cur[c].data, {},
                                    PyBool(WriteResult(b)), FALSE, 0)
                 /\ Finish(c)
  /\ UNCHANGED <<mode, session, held, calls>>

-----------------------------------------------------------------------------
(* Specifications.                                                         *)

InitFileSystem(prepared) ==
  \E p0 \in prepared : \E i \in InitFiles(p0) :
    /\ files = [p \in Paths |-> IF p = p0 THEN i.file ELSE Absent]
    /\ mode = [p \in Paths |-> IF p = p0 THEN i.mode ELSE ReadWrite]

InitCallers ==
  /\ pc = [c \in Callers |-> "idle"]
  /\ cur = [c \in Callers |-> NoCall]
  /\ buf = [c \in Callers |-> NoBuf]
  /\ held = [c \in Callers |-> Fresh]
  /\ ret = [c \in Callers |-> NoRet]

\* one caller, the file interface
Init ==
  /\ InitFileSystem(Paths)
  /\ InitCallers
  /\ session = EmptyDict
  /\ calls = [c \in Callers |-> IF c = "A" THEN MaxSeqCalls ELSE 0]

Next ==
  \E c \in Callers :
    \/ \E p \in Paths : \E d \in Defaults : ReadJsonFile(c, p, d)
    \/ \E X \in Collections : LoadX(c, X)
    \/ LoadTeamMembers(c)
    \/ \E p \in Paths : \E data \in Edits(held[c].val) :
         WriteJsonFile(c, p, data)
    \/ \E X \in Collections : \E data \in Edits(held[c].val) :
         SaveX(c, X, data)
    \/ Stat(c)
    \/ Read(c)
    \/ Open(c)
    \/ Flush(c)

Spec == Init /\ [][Next]_vars

\* two callers that load and save the tasks at the same time
InitConc ==
  /\ InitFileSystem({TASKS_FILE})
  /\ InitCallers
  /\ session = EmptyDict
  /\ calls = [c \in Callers |-> MaxCalls]

NextConc ==
  \E c \in Callers :
    \/ LoadX(c, TASKS_FILE)
    \/ \E data \in Edits(held[c].val) : SaveX(c, TASKS_FILE, data)
    \/ Stat(c)
    \/ Read(c)
    \/ Open(c)
    \/ Flush(c)

SpecConc == InitConc /\ [][NextConc]_vars

\* the role gate in every session state
InitAccess ==
  /\ files = [p \in Paths |-> Absent]
  /\ mode = [p \in Paths |-> ReadWrite]
  /\ InitCallers
  /\ session \in Sessions
  /\ calls = [c \in Callers |-> MaxCalls]

NextAccess ==
  \E c \in Callers :
    \E required_roles \in SUBSET {PyStr(n) : n \in RoleNames} :
      CheckRoleAccess(c, required_roles)

SpecAccess == InitAccess /\ [][NextAccess]_vars

\* one caller that loads a collection, saves what it loaded and loads again
InitRoundTrip ==
  /\ InitFileSystem(Collections)
  /\ InitCallers
  /\ session = EmptyDict
  /\ calls = [c \in Callers |-> IF c = "A" THEN 3 ELSE 0]

NextRoundTrip ==
  \E c \in Callers :
    \/ \E X \in Collections : calls[c] = 3 /\ LoadX(c, X)
    \/ calls[c] = 2 /\ SaveX(c, held[c].from, held[c].val)
    \/ calls[c] = 1 /\ LoadX(c, held[c].from)
    \/ Stat(c)
    \/ Read(c)
    \/ Open(c)
    \/ Flush(c)

SpecRoundTrip == InitRoundTrip /\ [][NextRoundTrip]_vars

-----------------------------------------------------------------------------
(* Properties.                                                             *)

\* caller c returns from a read in this step
ReadReturns(c) == pc[c] \in {"stat", "read"} /\ pc'[c] = "idle"
\* caller c returns from a write in this step
WriteReturns(c) == pc[c] \in {"open", "flush"} /\ pc'[c] = "idle"

\* C1: whatever the collection file holds at the start (nothing, an empty
\* text, an invalid text, a valid document), when a caller loads d with
\* load_X, saves it with save_X(d) and loads again, the second load returns
\* a value equal to d.
RoundTrip ==
  [][\A c \in Callers :
       (calls[c] = 0 /\ ReadReturns(c))
         => (~ret'[c].raised /\ ret'[c].val = held[c].val)]_vars

\* a round trip that rewrote a document with a repeated key
RoundTripDone ==
  /\ calls["A"] = 0 /\ pc["A"] = "idle"
  /\ ret["A"].op = "read_json_file"
  /\ ret["A"].val = PyDict(<<PyStr("a"), PyInt("3"), PyStr("b"), PyInt("2")>>)
  /\ files[ret["A"].path].text = Encode(ret["A"].val, 0).toks

\* the session state holds v under key
SessionHas(key, v) ==
  \E i \in 1..DictLen(session) : DictKey(session, i) = PyStr(key) /\ DictVal(session, i) = v

\* C4: check_role_access(required_roles) returns true exactly when the
\* session's authenticated flag is set and the session's role is one of
\* required_roles; it emits one warning when it returns false and none when
\* it returns true.
RoleGate ==
  \A c \in Callers :
    ret[c].op = "check_role_access" =>
      LET allowed == /\ SessionHas("authenticated", PyBool(TRUE))
                     /\ \E r \in ret[c].roles : SessionHas("role", r)
      IN  /\ ~ret[c].raised
          /\ ret[c].val = PyBool(allowed)
          /\ ret[c].warnings = IF allowed THEN 0 ELSE 1

\* an authenticated member is refused a page for admins and leads
RoleGateDenied ==
  /\ SessionHas("authenticated", PyBool(TRUE))
  /\ SessionHas("role", PyStr("member"))
  /\ ret["A"].op = "check_role_access"
  /\ ret["A"].roles = {PyStr("admin"), PyStr("lead")}
  /\ ret["A"].val = PyBool(FALSE)
  /\ ret["B"].op = "check_role_access"
  /\ ret["B"].val = PyBool(TRUE)

\* the default the documentation gives for a path and a default argument
\* (PyNone stands for a call without one)
DocumentedDefault(file_path, default) ==
  IF default # PyNone THEN default
  ELSE IF file_path \in {SETTINGS_FILE, USERS_FILE} THEN EmptyDict
  ELSE EmptyList

\* C2: read_json_file on a file that does not exist or has size 0 returns,
\* without raising, the default it was given, and without one an empty
\* mapping for the settings and users paths and an empty list for the rest.
MissingFileDefault ==
  [][\A c \in Callers :
       LET p == cur[c].path IN
       (/\ ReadReturns(c) /\ cur[c].op = "read_json_file"
        /\ (~files[p].exists \/ files[p].text = <<>>))
         => /\ ~ret'[c].raised
            /\ ret'[c].val = DocumentedDefault(p, cur[c].default)]_vars

\* the users file is missing and a plain read of it gave an empty mapping
MissingUsersRead ==
  /\ pc["A"] = "idle" /\ ret["A"].op = "read_json_file"
  /\ ret["A"].path = USERS_FILE /\ ret["A"].arg = PyNone
  /\ ~files[USERS_FILE].exists
  /\ ret["A"].val = EmptyDict

\* C3: read_json_file on a file whose text is not valid JSON, or that cannot
\* be read, returns the default without raising and leaves the file as it was.
InvalidFileDefault ==
  [][\A c \in Callers :
       LET p == cur[c].path IN
       (/\ ReadReturns(c) /\ cur[c].op = "read_json_file"
        /\ files[p].exists /\ files[p].text # <<>>
        /\ (files[p].text \in InvalidTexts \/ ~mode[p].r))
         => /\ ~ret'[c].raised
            /\ ret'[c].val = DocumentedDefault(p, cur[c].default)
            /\ files' = files]_vars

\* a text with a trailing comma was read as the empty list and is still there
InvalidTasksRead ==
  /\ pc["A"] = "idle" /\ ret["A"].op = "read_json_file"
  /\ ret["A"].path = TASKS_FILE
  /\ files[TASKS_FILE].text = <<LBracket, Num("1"), Comma, RBracket>>
  /\ ret["A"].val = EmptyList

\* C5: no call ends by raising.
NoExceptionPropagates == \A c \in Callers : ~ret[c].raised

RECURSIVE Serializable(_)
\* v holds nothing json cannot encode
Serializable(v) ==
  /\ v.t # "object"
  /\ \A i \in 1..Len(v.items) : Serializable(v.items[i])

\* C7: write_json_file returns a boolean and never raises; it returns true
\* exactly when the file could be opened and all of data was serialized, and
\* then the file holds the JSON form of data and nothing else.
WriteContract ==
  \A c \in Callers :
    (pc[c] = "idle" /\ ret[c].op = "write_json_file") =>
      LET p == ret[c].path
          data == ret[c].arg
      IN  /\ ~ret[c].raised
          /\ ret[c].val \in {PyBool(TRUE), PyBool(FALSE)}
          /\ ret[c].val = PyBool(mode[p].w /\ Serializable(data))
          /\ ret[c].val = PyBool(TRUE) =>
               /\ files[p].text = Encode(data, 0).toks
               /\ Parse(files[p].text) = Parsed(data, Len(files[p].text) + 1)

\* a longer document replaced the one the tasks file started with
TasksOverwritten ==
  /\ pc["A"] = "idle" /\ ret["A"].op = "write_json_file"
  /\ ret["A"].path = TASKS_FILE
  /\ ret["A"].arg = PyList(<<PyStr("t0"), PyStr("t1"), PyStr("new")>>)
  /\ ret["A"].val = PyBool(TRUE)

\* the users mapping of a text, when it holds one
UsersMapping(text) ==
  LET r == Parse(text) IN
  /\ r.ok /\ IsDict(r.val)
  /\ \A i \in 1..DictLen(r.val) : IsDict(DictVal(r.val, i))

\* the field of a member record
Field(member, key) == DictGet(member, PyStr(key), PyObject)

\* C8: load_team_members returns one record per username of the users
\* mapping, in its order, with the user's fields, "member" for a missing
\* role, "" for a missing name, email or department and the current time for
\* a missing created_at; the empty list when the users file is missing or
\* empty; and the users file is as it was.
TeamMembersView ==
  [][\A c \in Callers :
       (ReadReturns(c) /\ cur[c].op = "load_team_members") =>
         LET f == files[USERS_FILE]
             users == Parse(f.text).val
             out == ret'[c].val
         IN  /\ files' = files
             /\ (~f.exists \/ f.text = <<>>) => (~ret'[c].raised /\ out = EmptyList)
             /\ (f.exists /\ mode[USERS_FILE].r /\ UsersMapping(f.text)) =>
                  /\ ~ret'[c].raised
                  /\ IsList(out) /\ Len(out.items) = DictLen(users)
                  /\ \A i \in 1..DictLen(users) :
                       LET u == DictVal(users, i)
                           m == out.items[i]
                       IN  /\ DictLen(m) = 6
                           /\ Field(m, "username") = DictKey(users, i)
                           /\ Field(m, "name") = DictGet(u, PyStr("name"), PyStr(""))
                           /\ Field(m, "role") = DictGet(u, PyStr("role"), PyStr("member"))
                           /\ Field(m, "email") = DictGet(u, PyStr("email"), PyStr(""))
                           /\ Field(m, "department") =
                                DictGet(u, PyStr("department"), PyStr(""))
                           /\ IF HasKey(u, PyStr("created_at"))
                              THEN Field(m, "created_at") =
                                     DictGet(u, PyStr("created_at"), PyObject)
                              ELSE Field(m, "created_at") \in {PyStr(t) : t \in Times}]_vars

\* two members, the second with every default, from a file that still lacks
\* the second user's fields
TwoMembersLoaded ==
  /\ pc["A"] = "idle" /\ ret["A"].op = "load_team_members"
  /\ Len(ret["A"].val.items) = 2
  /\ Field(ret["A"].val.items[1], "role") = PyStr("admin")
  /\ Field(ret["A"].val.items[2], "role") = PyStr("member")
  /\ Field(ret["A"].val.items[2], "name") = PyStr("Bob")
  /\ files[USERS_FILE].text =
       Encode(PyDict(<<PyStr("ann"), User("Ann", "admin"),
                       PyStr("bob"), PyDict(<<PyStr("name"), PyStr("Bob")>>)>>), 0).toks

\* C9: a step of a load_X, load_team_members or read_json_file call changes
\* no file; a step of a save_X or write_json_file call changes at most the
\* file it was called for; no step changes the session state.
FrameEffect ==
  [][/\ session' = session
     /\ \A c \in Callers :
          (pc[c] \in {"stat", "read"} /\ pc'[c] # pc[c]) => files' = files
     /\ \A p \in Paths :
          files'[p] # files[p] =>
            \E c \in Callers : /\ pc[c] \in {"open", "flush"}
                               /\ cur[c].op = "write_json_file"
                               /\ cur[c].path = p]_vars

\* a save to the messages file is over and the tasks file holds what it held
MessagesSavedTasksKept ==
  /\ pc["A"] = "idle" /\ ret["A"].op = "write_json_file"
  /\ ret["A"].path = MESSAGES_FILE /\ ret["A"].val = PyBool(TRUE)
  /\ files[MESSAGES_FILE].text # <<>>
  /\ files[TASKS_FILE].text = Encode(PyList(<<Task("1")>>), 0).toks

\* C6: when two callers save the same collection, the file holds exactly the
\* data of the save that completed last once both have completed.
LastWriteWins ==
  [][\A c \in Callers : \A o \in Callers \ {c} :
       (/\ WriteReturns(c) /\ ret'[c].val = PyBool(TRUE)
        /\ pc[o] = "idle" /\ ret[o].op = "write_json_file"
        /\ ret[o].path = cur[c].path /\ ret[o].val = PyBool(TRUE))
         => files'[cur[c].path] = File(Encode(cur[c].data, 0).toks)]_vars

\* C10: write_json_file empties the file when it opens it, whatever the data;
\* a save that fails after the open, with no other save at work on the file,
\* leaves it empty or holding a partial document; a load that returns while
\* a save of the same file is between its open and its end and the file
\* holds what that save has written so far, or after a failed save left its
\* partial document, returns the default.
TruncateThenWrite ==
  [][\A c \in Callers :
       LET p == cur[c].path IN
       /\ (pc[c] = "open" /\ pc'[c] = "flush") => files'[p] = File(<<>>)
       /\ (/\ pc[c] = "flush" /\ pc'[c] = "idle" /\ ret'[c].val = PyBool(FALSE)
           /\ files[p].text = SubSeq(buf[c].toks, 1, buf[c].off))
            => /\ files'[p].text = buf[c].toks
               /\ (files'[p].text = <<>> \/ ~Parse(files'[p].text).ok)
       /\ (/\ ReadReturns(c) /\ cur[c].default = PyNone /\ p \in Collections
           /\ \/ \E w \in Callers \ {c} :
                   /\ pc[w] = "flush" /\ cur[w].path = p
                   /\ files[p].text = SubSeq(buf[w].toks, 1, buf[w].off)
              \/ \E w \in Callers :
                   /\ pc[w] = "idle" /\ ret[w].op = "write_json_file"
                   /\ ret[w].path = p /\ ret[w].val = PyBool(FALSE) /\ mode[p].w
                   /\ files[p].text = Encode(ret[w].arg, 0).toks)
            => ret'[c].val = EmptyList]_vars

\* B loaded a task, is in the middle of saving, and A's load in between got
\* the empty list
LoadDuringSave ==
  /\ pc["B"] = "flush" /\ cur["B"].path = TASKS_FILE
  /\ held["B"] = [val |-> PyList(<<Task("1")>>), from |-> TASKS_FILE]
  /\ pc["A"] = "idle" /\ calls["A"] = MaxCalls - 1
  /\ ret["A"].op = "read_json_file" /\ ret["A"].path = TASKS_FILE
  /\ ret["A"].val = EmptyList

====
